---- MODULE Spec2Model ----
(***************************************************************************)
(* The session/message state machine of the chat client (src/App.tsx).    *)
(*                                                                         *)
(* State of the App component: state.user, state.currentSessionId,        *)
(* state.sessions, isGenerating and error; plus the Message objects the   *)
(* sessions' arrays refer to (objs: the updaters of onChunk, onComplete   *)
(* and onError write to those objects in place, so every array that holds *)
(* a message sees the write), and one record per generateResponseStream   *)
(* invocation (turns) holding what its three callbacks captured.          *)
(*                                                                         *)
(* Left out, because no handler modelled here reads them: updatedAt,      *)
(* timestamp, sidebarOpen, selectedModel, showModelMenu.                   *)
(*                                                                         *)
(* A handler reads the state of the render it was created in.  Every user *)
(* event (click, submit) is followed by a synchronous re-render, and the  *)
(* callbacks of a turn change neither currentSessionId nor the length of  *)
(* any messages array, so at a user event the values a handler captured   *)
(* (currentSessionId, the current session's messages array) are those of  *)
(* the current state; the callbacks keep what they captured in turns.     *)
(***************************************************************************)
EXTENDS Integers, Sequences, FiniteSets, TLC

VARIABLES user, currentSessionId, sessions, objs, isGenerating, error,
          turns, effectPending

vars == <<user, currentSessionId, sessions, objs, isGenerating, error,
          turns, effectPending>>

\* ---------------------------------------------------------------- bounds
\* sessions created, turns started and deltas delivered (all turns together)
\* in one behaviour; welcome suggestions offered (the first MaxSuggestions)
MaxSessions == 2
MaxTurns == 3
MaxChunks == 2
MaxSuggestions == 1

\* ------------------------------------------------------------- constants
Null == "null"
\* state.user = null; a stored profile never has an empty field (lines 83-90)
NoUser == [firstName |-> "", email |-> ""]
USER == "user"
MODEL == "model"

TitleLimit == 30
NewChatTitle == "New Chat"
Ellipsis == "..."
Apology == "Sorry, I encountered an error processing your request."
GenericError == "Something went wrong"

WELCOME_SUGGESTIONS ==
    << "Write a Python script to scrape a website and save the data to a CSV file.",
       "Plan a 5-day itinerary for a trip to Kyoto, Japan, focusing on historical sites and food.",
       "Explain quantum computing to a 5-year-old using simple analogies.",
       "Describe what you see in this image in detail." >>

\* ---------------------------------------------------------------- inputs
Text30 == "123456789012345678901234567890"
Text31 == "123456789012345678901234567890a"
Attachment == [mimeType |-> "image/png", url |-> "blob:1", data |-> "AAAA"]

\* what the input area can hand to onSend: (text, attachments)
InputAreaInputs ==
    { <<Text30, <<>>>>, <<Text31, <<>>>>, <<"", <<Attachment>>>>, <<"", <<>>>> }

\* the text deltas of a response, in the order the stream carries them; a
\* stream may end after any number of them
Response == <<"He", "llo", "!", "?">>

\* the failures a stream can end with: err.message absent, empty or set
Errors == { [hasMessage |-> FALSE, message |-> ""],
            [hasMessage |-> TRUE, message |-> ""],
            [hasMessage |-> TRUE, message |-> "Quota exceeded"] }

OnboardingInputs == {"", " ", "Ann"}

\* --------------------------------------------------------------- helpers
Min(a, b) == IF a < b THEN a ELSE b

\* uuidv4(): an id no earlier call returned
SessionUuid(n) == "s" \o ToString(n)
MessageUuid(n) == "m" \o ToString(n)

\* String.prototype.trim over the blank
RECURSIVE TrimLeft(_)
TrimLeft(s) ==
    IF Len(s) > 0 /\ SubSeq(s, 1, 1) = " " THEN TrimLeft(SubSeq(s, 2, Len(s))) ELSE s

RECURSIVE TrimRight(_)
TrimRight(s) ==
    IF Len(s) > 0 /\ SubSeq(s, Len(s), Len(s)) = " "
    THEN TrimRight(SubSeq(s, 1, Len(s) - 1)) ELSE s

Trim(s) == TrimRight(TrimLeft(s))

\* text.slice(0, n)
Slice0(text, n) == SubSeq(text, 1, Min(n, Len(text)))

\* TitleOf with the comparison off by one (>= for >)
TitleOf_offByOne(text) ==
    Slice0(text, TitleLimit) \o (IF Len(text) >= TitleLimit THEN Ellipsis ELSE "")

\* text.slice(0, 30) + (text.length > 30 ? '...' : '')
TitleOf(text) ==
    Slice0(text, TitleLimit) \o (IF Len(text) > TitleLimit THEN Ellipsis ELSE "")

\* const currentSession = state.currentSessionId ? state.sessions[...] : null
HasCurrentSession == currentSessionId # Null /\ currentSessionId \in DOMAIN sessions

\* const currentMessages = currentSession?.messages || []
currentMessages == IF HasCurrentSession THEN sessions[currentSessionId].messages ELSE <<>>

Last(seq) == seq[Len(seq)]

\* ------------------------------------------------------------------ Init
Init ==
    /\ user = NoUser
    /\ currentSessionId = Null
    /\ sessions = <<>>
    /\ objs = <<>>
    /\ isGenerating = FALSE
    /\ error = Null
    /\ turns = <<>>
    /\ effectPending = TRUE

\* ------------------------------------------------- the store's one writer
\* The updaters handed to updateCurrentSession.  Each takes the session value
\* and the message objects and gives both back: [session, objs].

\* addUserMessage putting the new message in front of the array
addUserMessage_prepend(session, o, userMsgId, text) ==
    LET newTitle == IF Len(session.messages) = 0 THEN TitleOf(text) ELSE session.title
    IN  [session |-> [session EXCEPT !.title = newTitle,
                                      !.messages = <<userMsgId>> \o @],
         objs |-> o]

\* 1. Add User Message (updater of lines 111-123)
addUserMessage(session, o, userMsgId, text) ==
    LET newTitle == IF Len(session.messages) = 0 THEN TitleOf(text) ELSE session.title
    IN  [session |-> [session EXCEPT !.title = newTitle,
                                      !.messages = Append(@, userMsgId)],
         objs |-> o]

\* addPlaceholder appending to the array of the render (currentSession.messages)
\* instead of the array the updater is given: the user message is overwritten
addPlaceholder_staleArray(session, o, aiMsgId) ==
    [session |-> [session EXCEPT !.messages = Append(sessions[session.id].messages, aiMsgId)],
     objs |-> o]

\* addPlaceholder returning the session it was given
addPlaceholder_dropped(session, o, aiMsgId) == [session |-> session, objs |-> o]

\* 2. Add Placeholder Assistant Message (updater of lines 135-138)
addPlaceholder(session, o, aiMsgId) ==
    [session |-> [session EXCEPT !.messages = Append(@, aiMsgId)], objs |-> o]

\* chunkUpdater without the lastMsg.id === aiMsgId test
chunkUpdater_noIdCheck(session, o, aiMsgId, chunkText) ==
    LET lastMsg == Last(session.messages)
    IN  [session |-> session,
         objs |-> [o EXCEPT ![lastMsg].text = @ \o chunkText]]

\* On Chunk (updater of lines 151-158): lastMsg is the object the array ends with
chunkUpdater(session, o, aiMsgId, chunkText) ==
    LET lastMsg == Last(session.messages)
    IN  [session |-> session,
         objs |-> IF lastMsg = aiMsgId
                  THEN [o EXCEPT ![lastMsg].text = @ \o chunkText]
                  ELSE o]

\* On Complete (updater of lines 163-168)
completeUpdater(session, o) ==
    LET lastMsg == Last(session.messages)
    IN  [session |-> session,
         objs |-> [o EXCEPT ![lastMsg].isStreaming = FALSE]]

\* On Error (updater of lines 174-180)
errorUpdater(session, o) ==
    LET lastMsg == Last(session.messages)
    IN  [session |-> session,
         objs |-> [o EXCEPT ![lastMsg].isStreaming = FALSE,
                            ![lastMsg].text = IF @ = "" THEN Apology ELSE @]]

\* updater({ ...session }) for the updater u describes.  On an empty messages
\* array lastMsg is undefined and the callbacks' updaters throw before they
\* write anything: the update is lost.
Updater(u, session, o) ==
    IF u.kind = "addUser" THEN addUserMessage(session, o, u.id, u.text)
    ELSE IF u.kind = "addPlaceholder" THEN addPlaceholder(session, o, u.id)
    ELSE IF Len(session.messages) = 0 THEN [session |-> session, objs |-> o]
    ELSE IF u.kind = "chunk" THEN chunkUpdater(session, o, u.id, u.text)
    ELSE IF u.kind = "complete" THEN completeUpdater(session, o)
    ELSE errorUpdater(session, o)

\* sessionKey reading the active session of the latest state (prev.currentSessionId)
sessionKey_activeSession(capturedId) == currentSessionId

\* prev.sessions[state.currentSessionId!] : the id is the one of the render the
\* calling handler was created in
sessionKey(capturedId) == capturedId

\* updateCurrentSession, applied to the store prev = [sessions, objs]
updateCurrentSession(capturedId, prev, u) ==
    IF capturedId = Null THEN prev
    ELSE IF sessionKey(capturedId) \notin DOMAIN prev.sessions THEN prev
    ELSE LET session == prev.sessions[sessionKey(capturedId)]
             r == Updater(u, session, prev.objs)
         IN  [sessions |-> [prev.sessions EXCEPT ![session.id] = r.session],
              objs |-> r.objs]

Store == [sessions |-> sessions, objs |-> objs]

\* --------------------------------------------------------------- handlers
\* createNewSession without the spread of prev.sessions
createNewSession_dropsSessions ==
    LET newId == SessionUuid(Cardinality(DOMAIN sessions) + 1)
        newSession == [id |-> newId, title |-> NewChatTitle, messages |-> <<>>]
    IN  /\ currentSessionId' = newId
        /\ sessions' = (newId :> newSession)

createNewSession ==
    LET newId == SessionUuid(Cardinality(DOMAIN sessions) + 1)
        newSession == [id |-> newId, title |-> NewChatTitle, messages |-> <<>>]
    IN  /\ currentSessionId' = newId
        /\ sessions' = (newId :> newSession) @@ sessions

\* historyOf built after both appends, so that it ends in the placeholder
historyOf_withPlaceholder(userMsgId) ==
    IF HasCurrentSession
    THEN sessions[currentSessionId].messages
             \o <<userMsgId, MessageUuid(2 * Len(turns) + 2)>>
    ELSE <<userMsgId, MessageUuid(2 * Len(turns) + 2)>>

\* history: [...currentSession.messages, userMessage] or [userMessage]
historyOf(userMsgId) ==
    IF HasCurrentSession THEN Append(sessions[currentSessionId].messages, userMsgId)
    ELSE <<userMsgId>>

\* A user message carries no isStreaming field; it reads as false.
handleSendMessage(text, attachments) ==
    /\ currentSessionId # Null
    /\ Len(turns) < MaxTurns
    /\ error' = Null
    /\ isGenerating' = TRUE
    /\ LET userMsgId == MessageUuid(2 * Len(turns) + 1)
           aiMsgId == MessageUuid(2 * Len(turns) + 2)
           userMessage == [id |-> userMsgId, role |-> USER, text |-> text,
                           attachments |-> attachments, isStreaming |-> FALSE]
           aiPlaceholder == [id |-> aiMsgId, role |-> MODEL, text |-> "",
                             attachments |-> <<>>, isStreaming |-> TRUE]
           created == (aiMsgId :> aiPlaceholder) @@ (userMsgId :> userMessage) @@ objs
           s1 == updateCurrentSession(currentSessionId,
                     [sessions |-> sessions, objs |-> created],
                     [kind |-> "addUser", id |-> userMsgId, text |-> text])
           s2 == updateCurrentSession(currentSessionId, s1,
                     [kind |-> "addPlaceholder", id |-> aiMsgId, text |-> ""])
       IN  /\ sessions' = s2.sessions
           /\ objs' = s2.objs
           /\ turns' = Append(turns, [sessionId |-> currentSessionId,
                                      aiMsgId |-> aiMsgId,
                                      history |-> historyOf(userMsgId),
                                      chunks |-> <<>>,
                                      status |-> "streaming"])
    /\ UNCHANGED <<user, currentSessionId, effectPending>>

\* ----------------------------------------------------- user-event actions
\* The main view (sidebar, welcome buttons, input area) is rendered only when
\* state.user is set (line 185), and a commit's effects run before the next
\* user event is handled.
MainViewShown == user # NoUser /\ ~effectPending

\* the onboarding form's submit: shown only while state.user is null
handleOnboardingSubmit(onboardingName, onboardingEmail) ==
    /\ user = NoUser
    /\ ~effectPending
    /\ IF Trim(onboardingName) # "" /\ Trim(onboardingEmail) # ""
       THEN /\ user' = [firstName |-> Trim(onboardingName),
                        email |-> Trim(onboardingEmail)]
            /\ effectPending' = TRUE
       ELSE UNCHANGED <<user, effectPending>>
    /\ UNCHANGED <<currentSessionId, sessions, objs, isGenerating, error, turns>>

\* useEffect(..., [state.user]): runs after mount and after each commit that
\* changed state.user
initializeFirstSession ==
    /\ effectPending
    /\ effectPending' = FALSE
    /\ IF user # NoUser /\ currentSessionId = Null
       THEN createNewSession
       ELSE UNCHANGED <<currentSessionId, sessions>>
    /\ UNCHANGED <<user, objs, isGenerating, error, turns>>

\* Sidebar onNewChat={createNewSession}
onNewChat ==
    /\ MainViewShown
    /\ Cardinality(DOMAIN sessions) < MaxSessions
    /\ createNewSession
    /\ UNCHANGED <<user, objs, isGenerating, error, turns, effectPending>>

\* Sidebar onSelectSession={(id) => setState(prev => ({...prev, currentSessionId: id}))}
onSelectSession(id) ==
    /\ MainViewShown
    /\ currentSessionId' = id
    /\ UNCHANGED <<user, sessions, objs, isGenerating, error, turns, effectPending>>

\* a welcome suggestion button: rendered while currentMessages.length === 0
onSuggestionClick(idx) ==
    /\ MainViewShown
    /\ Len(currentMessages) = 0
    /\ handleSendMessage(WELCOME_SUGGESTIONS[idx], <<>>)

\* <InputArea onSend={handleSendMessage} disabled={isGenerating} />
InputAreaDisabled == isGenerating

\* InputAreaSends without the test for an empty text and attachment list
InputAreaSends_acceptsEmpty(text, attachments) == ~InputAreaDisabled

\* what the input area does with its props: it sends nothing while disabled
\* and nothing when both the text and the attachment list are empty
InputAreaSends(text, attachments) ==
    /\ ~InputAreaDisabled
    /\ (text # "" \/ Len(attachments) > 0)

onSend(text, attachments) ==
    /\ MainViewShown
    /\ InputAreaSends(text, attachments)
    /\ handleSendMessage(text, attachments)

\* ------------------------------------------- the generation capability
\* generateResponseStream calls onChunk zero or more times, then exactly one of
\* onComplete and onError.
StreamOpen(t) == t \in 1..Len(turns) /\ turns[t].status = "streaming"

ChunksDelivered == LET RECURSIVE Sum(_)
                       Sum(n) == IF n = 0 THEN 0 ELSE Len(turns[n].chunks) + Sum(n - 1)
                   IN  Sum(Len(turns))

\* the store after the callback's updateCurrentSession(u)
AfterUpdate(t, u) == updateCurrentSession(turns[t].sessionId, Store, u)

onChunk(t, chunkText) ==
    /\ StreamOpen(t)
    /\ ChunksDelivered < Min(MaxChunks, Len(Response))
    /\ LET s == AfterUpdate(t, [kind |-> "chunk", id |-> turns[t].aiMsgId,
                                text |-> chunkText])
       IN  /\ sessions' = s.sessions
           /\ objs' = s.objs
    /\ turns' = [turns EXCEPT ![t].chunks = Append(@, chunkText)]
    /\ UNCHANGED <<user, currentSessionId, isGenerating, error, effectPending>>

\* onComplete without setIsGenerating(false)
onComplete_keepsGenerating(t) ==
    /\ StreamOpen(t)
    /\ LET s == AfterUpdate(t, [kind |-> "complete", id |-> "", text |-> ""])
       IN  /\ sessions' = s.sessions
           /\ objs' = s.objs
    /\ turns' = [turns EXCEPT ![t].status = "complete"]
    /\ UNCHANGED <<user, currentSessionId, isGenerating, error, effectPending>>

onComplete(t) ==
    /\ StreamOpen(t)
    /\ isGenerating' = FALSE
    /\ LET s == AfterUpdate(t, [kind |-> "complete", id |-> "", text |-> ""])
       IN  /\ sessions' = s.sessions
           /\ objs' = s.objs
    /\ turns' = [turns EXCEPT ![t].status = "complete"]
    /\ UNCHANGED <<user, currentSessionId, error, effectPending>>

\* err.message || "Something went wrong"
errorText(err) == IF err.hasMessage /\ err.message # "" THEN err.message ELSE GenericError

onError(t, err) ==
    /\ StreamOpen(t)
    /\ isGenerating' = FALSE
    /\ error' = errorText(err)
    /\ LET s == AfterUpdate(t, [kind |-> "error", id |-> "", text |-> ""])
       IN  /\ sessions' = s.sessions
           /\ objs' = s.objs
    /\ turns' = [turns EXCEPT ![t].status = "error"]
    /\ UNCHANGED <<user, currentSessionId, effectPending>>

\* ------------------------------------------------------------------ Next
Onboard == \E n \in OnboardingInputs, e \in OnboardingInputs : handleOnboardingSubmit(n, e)
Select == \E id \in DOMAIN sessions : onSelectSession(id)
Suggest == \E idx \in 1..Min(MaxSuggestions, Len(WELCOME_SUGGESTIONS)) : onSuggestionClick(idx)
Send == \E in \in InputAreaInputs : onSend(in[1], in[2])
Chunk == \E t \in 1..Len(turns) : onChunk(t, Response[Len(turns[t].chunks) + 1])
Complete == \E t \in 1..Len(turns) : onComplete(t)
Fail == \E t \in 1..Len(turns), err \in Errors : onError(t, err)

Next ==
    \/ Onboard
    \/ initializeFirstSession
    \/ onNewChat
    \/ Select
    \/ Suggest
    \/ Send
    \/ Chunk
    \/ Complete
    \/ Fail

Spec == Init /\ [][Next]_vars

\* ------------------------------------------------- vocabulary of the claims
RECURSIVE Concat(_)
Concat(seq) == IF Len(seq) = 0 THEN "" ELSE Concat(SubSeq(seq, 1, Len(seq) - 1)) \o Last(seq)

Range(seq) == {seq[i] : i \in 1..Len(seq)}

StreamingIn(sid) == {m \in Range(sessions[sid].messages) : objs[m].isStreaming}

AllMessageIds == DOMAIN objs

\* this step is handleSendMessage starting a turn
IsSendStep == Len(turns') = Len(turns) + 1

\* this step is a callback of turn t
IsCallbackOf(t) == Len(turns') = Len(turns) /\ turns'[t] # turns[t]
IsChunkOf(t) == IsCallbackOf(t) /\ turns'[t].chunks # turns[t].chunks
IsCompleteOf(t) == IsCallbackOf(t) /\ turns'[t].status = "complete"
IsErrorOf(t) == IsCallbackOf(t) /\ turns'[t].status = "error"

\* turn t's placeholder is the last message of the session it was sent in
PlaceholderIsLast(t) ==
    /\ turns[t].sessionId \in DOMAIN sessions
    /\ Len(sessions[turns[t].sessionId].messages) > 0
    /\ Last(sessions[turns[t].sessionId].messages) = turns[t].aiMsgId

Superseded(t) ==
    /\ turns[t].sessionId \in DOMAIN sessions
    /\ turns[t].aiMsgId \in Range(sessions[turns[t].sessionId].messages)
    /\ ~PlaceholderIsLast(t)

\* ------------------------------------------------------------------- C1
\* C1: in every reachable state each session holds at most one message with
\* isStreaming = true.
C1_AtMostOneStreaming ==
    \A sid \in DOMAIN sessions : Cardinality(StreamingIn(sid)) <= 1

\* ------------------------------------------------------------------- C2
\* C2: a delta, completion or error callback of a turn started in session A
\* leaves every other session B unchanged (its title, its messages, their text
\* and isStreaming), whichever session is active when the callback fires.
C2_CallbacksLeaveOtherSessions ==
    [][\A t \in 1..Len(turns) :
          IsCallbackOf(t) =>
              \A b \in DOMAIN sessions \ {turns[t].sessionId} :
                  /\ sessions'[b] = sessions[b]
                  /\ \A m \in Range(sessions[b].messages) : objs'[m] = objs[m]]_vars

\* Sessions A and B both have had turns in flight, A's turn (started after B's,
\* which is still in flight) has had a delta applied and has completed, and the
\* active session is B.
C2_Witness ==
    \E tA, tB \in 1..Len(turns) :
        /\ tB < tA
        /\ turns[tA].sessionId # turns[tB].sessionId
        /\ StreamOpen(tB)
        /\ turns[tA].status = "complete"
        /\ Len(turns[tA].chunks) > 0
        /\ currentSessionId = turns[tB].sessionId

\* ------------------------------------------------------------------- C3
\* C3: an accepted send extends the messages of the session it was sent in by
\* exactly two entries, the USER message and right after it the MODEL
\* placeholder (text "", isStreaming = true), and changes the messages of no
\* other session.
C3_SendAppendsUserThenPlaceholder ==
    [][IsSendStep =>
          LET t == Len(turns')
              sid == turns'[t].sessionId
              old == sessions[sid].messages
              new == sessions'[sid].messages
          IN  sid \in DOMAIN sessions =>
                /\ Len(new) = Len(old) + 2
                /\ SubSeq(new, 1, Len(old)) = old
                /\ objs'[new[Len(old) + 1]].role = USER
                /\ new[Len(old) + 1] \notin AllMessageIds
                /\ new[Len(old) + 2] = turns'[t].aiMsgId
                /\ new[Len(old) + 2] \notin AllMessageIds
                /\ objs'[new[Len(old) + 2]].role = MODEL
                /\ objs'[new[Len(old) + 2]].text = ""
                /\ objs'[new[Len(old) + 2]].isStreaming = TRUE
                /\ \A b \in DOMAIN sessions \ {sid} :
                      sessions'[b].messages = sessions[b].messages]_vars

\* A send was accepted in a session that already held a finished turn, while
\* another session holds messages too.
C3_Witness ==
    \E sid \in DOMAIN sessions, b \in DOMAIN sessions :
        /\ sid # b
        /\ Len(sessions[sid].messages) = 4
        /\ Len(sessions[b].messages) = 2
        /\ objs[sessions[sid].messages[4]].isStreaming

\* ------------------------------------------------------------------- C4
\* C4: for a turn whose placeholder is still the last message of its session
\* and that has not failed, the placeholder's text is the concatenation, in
\* order, of the deltas delivered so far.
C4_TextIsConcatenationOfDeltas ==
    \A t \in 1..Len(turns) :
        (PlaceholderIsLast(t) /\ turns[t].status # "error") =>
            objs[turns[t].aiMsgId].text = Concat(turns[t].chunks)

\* ------------------------------------------------------------------- C5
\* C5: a delta of a turn whose placeholder is no longer the last message of
\* its session changes no message's text or isStreaming in any session.
C5_StaleDeltaIsNoOp ==
    [][\A t \in 1..Len(turns) :
          (IsChunkOf(t) /\ Superseded(t)) => (objs' = objs /\ sessions' = sessions)]_vars

\* A superseded turn has been handed a delta, and its placeholder is still
\* empty: the delta arrived after the turn was superseded.
C5_Witness ==
    \E t \in 1..Len(turns) :
        /\ Superseded(t)
        /\ Len(turns[t].chunks) > 0
        /\ objs[turns[t].aiMsgId].text = ""

\* ------------------------------------------------------------------- C6
\* C6: the completion event of a turn leaves that turn's own placeholder with
\* isStreaming = false and its text as accumulated from the turn's deltas (""
\* when there were none), and modifies no other message.
C6_CompleteSettlesOwnPlaceholder ==
    [][\A t \in 1..Len(turns) :
          IsCompleteOf(t) =>
              /\ objs'[turns[t].aiMsgId].isStreaming = FALSE
              /\ objs'[turns[t].aiMsgId].text = objs[turns[t].aiMsgId].text
              /\ (turns[t].chunks = <<>> => objs'[turns[t].aiMsgId].text = "")
              /\ \A m \in AllMessageIds \ {turns[t].aiMsgId} : objs'[m] = objs[m]]_vars

\* ------------------------------------------------------------------- C7
\* C7: the failure event of a turn leaves that turn's own placeholder with
\* isStreaming = false and with the apology as its text exactly when no text
\* had been accumulated (accumulated text is kept), and the error banner holds
\* the failure's message, or the generic fallback when it carries none.
C7_ErrorSettlesOwnPlaceholder ==
    [][\A t \in 1..Len(turns), err \in Errors :
          onError(t, err) =>
              LET own == turns[t].aiMsgId
              IN  /\ objs'[own].isStreaming = FALSE
                  /\ objs'[own].text = IF objs[own].text = "" THEN Apology
                                       ELSE objs[own].text
                  /\ error' = IF err.hasMessage /\ err.message # ""
                               THEN err.message
                               ELSE "Something went wrong"]_vars

\* ------------------------------------------------------------------- C8
\* C8: every turn that is started reaches COMPLETED or FAILED: once a turn's
\* terminal event has been delivered, its placeholder has isStreaming = false.
C8_TerminalEventEndsStreaming ==
    \A t \in 1..Len(turns) :
        (~StreamOpen(t) /\ turns[t].aiMsgId \in AllMessageIds) =>
            ~objs[turns[t].aiMsgId].isStreaming

\* ------------------------------------------------------------------- C9
\* C9: every terminal event, success or failure, sets the generating flag to
\* false, and once every started turn has received its terminal event the
\* flag is false.
C9_TerminalEventClearsGenerating ==
    /\ [][\A t \in 1..Len(turns) :
             (IsCompleteOf(t) \/ IsErrorOf(t)) => isGenerating' = FALSE]_vars
    /\ []((\A t \in 1..Len(turns) : ~StreamOpen(t)) => ~isGenerating)

\* Turns ended both ways, one by completion and one by failure, none is left
\* in flight, and the flag is false.
C9_Witness ==
    /\ \E t \in 1..Len(turns) : turns[t].status = "complete"
    /\ \E t \in 1..Len(turns) : turns[t].status = "error"
    /\ \A t \in 1..Len(turns) : ~StreamOpen(t)
    /\ ~isGenerating

\* ------------------------------------------------------------------ C10
\* C10: the first send on a session with no messages sets the title to the
\* text when it has at most 30 characters and to its first 30 characters
\* followed by "..." when it is longer; every later send on the session and
\* every delta, completion or error event leaves the title unchanged.
C10_TitleSetOnceFromFirstText ==
    [][/\ IsSendStep =>
            LET sid == turns'[Len(turns')].sessionId
                text == objs'[sessions'[sid].messages[Len(sessions[sid].messages) + 1]].text
                title == sessions'[sid].title
            IN  sid \in DOMAIN sessions =>
                  IF Len(sessions[sid].messages) = 0
                  THEN IF Len(text) <= 30
                       THEN title = text
                       ELSE /\ Len(title) = 33
                            /\ SubSeq(title, 1, 30) = SubSeq(text, 1, 30)
                            /\ SubSeq(title, 31, 33) = "..."
                  ELSE title = sessions[sid].title
       /\ (\E t \in 1..Len(turns) : IsCallbackOf(t)) =>
            \A sid \in DOMAIN sessions : sessions'[sid].title = sessions[sid].title]_vars

\* One session was titled by a 30-character text, another by a longer one, and
\* a session that took a second send and a finished turn kept its title.
C10_Witness ==
    /\ \E sid \in DOMAIN sessions :
          /\ Len(sessions[sid].messages) > 0
          /\ Len(objs[sessions[sid].messages[1]].text) = 30
          /\ sessions[sid].title = objs[sessions[sid].messages[1]].text
    /\ \E sid \in DOMAIN sessions :
          /\ Len(sessions[sid].messages) = 4
          /\ Len(objs[sessions[sid].messages[1]].text) > 30
          /\ Len(sessions[sid].title) = 33
          /\ \E t \in 1..Len(turns) : turns[t].sessionId = sid /\ ~StreamOpen(t)

\* ------------------------------------------------------------------ C11
\* The completion callback of a turn called once more after it has fired: the
\* same callback body, for a stream that has already ended by completion.
onCompleteAgain(t) ==
    /\ t \in 1..Len(turns)
    /\ turns[t].status = "complete"
    /\ isGenerating' = FALSE
    /\ LET s == AfterUpdate(t, [kind |-> "complete", id |-> "", text |-> ""])
       IN  /\ sessions' = s.sessions
           /\ objs' = s.objs
    /\ UNCHANGED <<user, currentSessionId, error, turns, effectPending>>

CompleteAgain == \E t \in 1..Len(turns) : onCompleteAgain(t)

NextRedeliver ==
    \/ Next
    \/ CompleteAgain

\* the App with a capability that may deliver a completion event twice
SpecRedeliver == Init /\ [][NextRedeliver]_vars

\* C11: delivering the completion event of a turn a second time, after it has
\* fired, changes neither sessions, messages, the generating flag nor the
\* error banner, whatever happened between the two deliveries.
C11_SecondCompletionChangesNothing ==
    [][\A t \in 1..Len(turns) :
          onCompleteAgain(t) => UNCHANGED <<sessions, objs, isGenerating, error>>]_vars

\* ------------------------------------------------------------ C12, C13
\* an id that is no key of sessions (no uuidv4() call returns it)
UnknownId == "s0"

\* onSelectSession(id) takes whatever id it is handed
SelectAny == \E id \in DOMAIN sessions \cup {UnknownId} : onSelectSession(id)

NextAnyId ==
    \/ Next
    \/ SelectAny

\* the App when selectSession may be asked for any id
SpecAnyId == Init /\ [][NextAnyId]_vars

\* C12: in every reachable state currentSessionId is null or a key of
\* sessions, selectSession(id) being allowed any id.
C12_CurrentSessionResolves ==
    currentSessionId = Null \/ currentSessionId \in DOMAIN sessions

\* C13: selectSession(id) with an id that is no key of sessions changes neither
\* currentSessionId nor sessions; with a key of sessions it sets
\* currentSessionId to id and changes nothing else.
C13_SelectUnknownIsNoOp ==
    [][\A id \in DOMAIN sessions \cup {UnknownId} :
          onSelectSession(id) =>
              IF id \in DOMAIN sessions
              THEN /\ currentSessionId' = id
                   /\ UNCHANGED <<user, sessions, objs, isGenerating, error, turns>>
              ELSE UNCHANGED <<currentSessionId, sessions>>]_vars

FairSpec == Spec /\ WF_vars(initializeFirstSession)

IsCreateStep ==
    \/ onNewChat
    \/ DOMAIN sessions' # DOMAIN sessions

NoSessionYet == user # NoUser /\ currentSessionId = Null

\* C15: createSession adds one session under an id that was not in sessions,
\* with no messages and the title "New Chat", makes it current and leaves
\* every existing session (and every message) unchanged; a state with a user
\* and no current session is one whose effect is still pending, every step
\* out of it gives it a current session, and it leads to a state with one.
C15_CreateSessionAndAutoCreate ==
    /\ [][IsCreateStep =>
            /\ currentSessionId' \notin DOMAIN sessions
            /\ DOMAIN sessions' = DOMAIN sessions \cup {currentSessionId'}
            /\ sessions'[currentSessionId'].id = currentSessionId'
            /\ sessions'[currentSessionId'].messages = <<>>
            /\ sessions'[currentSessionId'].title = NewChatTitle
            /\ \A id \in DOMAIN sessions : sessions'[id] = sessions[id]
            /\ UNCHANGED <<user, objs, isGenerating, error, turns>>]_vars
    /\ [](NoSessionYet => effectPending)
    /\ [][NoSessionYet => currentSessionId' \in DOMAIN sessions']_vars
    /\ (NoSessionYet ~> currentSessionId \in DOMAIN sessions)

\* The first session was created by the effect and has messages; a second
\* one was created from the sidebar, is empty and is the current one.
C15_Witness ==
    /\ user # NoUser
    /\ Cardinality(DOMAIN sessions) = 2
    /\ currentSessionId = SessionUuid(2)
    /\ sessions[SessionUuid(2)].messages = <<>>
    /\ sessions[SessionUuid(2)].title = NewChatTitle
    /\ Len(sessions[SessionUuid(1)].messages) > 0

\* ------------------------------------------------------------------ C16
\* C16: the history a send hands to the generation capability is the
\* session's messages as they were just before the send, in order, followed
\* by the new USER message, and does not contain the turn's placeholder; the
\* messages in it read as the store reads them at that moment.
C16_HistoryIsPriorMessagesPlusUser ==
    [][IsSendStep =>
          LET t == Len(turns')
              sid == turns'[t].sessionId
              history == turns'[t].history
          IN  sid \in DOMAIN sessions =>
                /\ Len(history) = Len(sessions[sid].messages) + 1
                /\ SubSeq(history, 1, Len(history) - 1) = sessions[sid].messages
                /\ Last(history) \notin AllMessageIds
                /\ objs'[Last(history)].role = USER
                /\ turns'[t].aiMsgId \notin Range(history)
                /\ sessions'[sid].messages = Append(history, turns'[t].aiMsgId)
                /\ \A i \in 1..(Len(history) - 1) : objs'[history[i]] = objs[history[i]]]_vars

\* A send was made in a session that earlier callbacks and an earlier send
\* had changed: its history holds an earlier turn's reply with delivered text.
C16_Witness ==
    \E t \in 1..Len(turns) :
        /\ Len(turns[t].history) >= 3
        /\ \E k \in 1..(t - 1) :
              /\ turns[k].sessionId = turns[t].sessionId
              /\ Len(turns[k].chunks) > 0
              /\ turns[k].aiMsgId \in Range(turns[t].history)
              /\ objs[turns[k].aiMsgId].text # ""

\* ------------------------------------------------------------------ C17
IsPrefix(a, b) == Len(a) <= Len(b) /\ SubSeq(b, 1, Len(a)) = a

\* C17: a message's text changes only while its isStreaming is true, and only
\* by appending: in every step a message that is not streaming keeps its
\* text, and a changed text has the old text as a prefix.
C17_TextGrowsOnlyWhileStreaming ==
    [][\A m \in AllMessageIds :
          /\ ~objs[m].isStreaming => objs'[m].text = objs[m].text
          /\ objs'[m].text # objs[m].text => IsPrefix(objs[m].text, objs'[m].text)]_vars

\* ------------------------------------------------------------------ C18
\* C18: each session's messages are append-only: every step keeps the ids,
\* roles and order of the messages already present (the old id sequence is a
\* prefix of the new one), changes text or isStreaming of at most the last
\* message of a session, and never changes a USER message once appended.
C18_MessagesAppendOnly ==
    [][/\ DOMAIN sessions \subseteq DOMAIN sessions'
       /\ \A sid \in DOMAIN sessions :
             LET old == sessions[sid].messages
                 new == sessions'[sid].messages
             IN  /\ IsPrefix(old, new)
                 /\ \A i \in 1..Len(old) :
                       /\ objs'[old[i]].id = objs[old[i]].id
                       /\ objs'[old[i]].role = objs[old[i]].role
                       /\ objs'[old[i]].attachments = objs[old[i]].attachments
                       /\ i < Len(old) => objs'[old[i]] = objs[old[i]]
                       /\ objs[old[i]].role = USER => objs'[old[i]] = objs[old[i]]]_vars

\* Two turns overlap in one session and the older one has just settled: the
\* callback found the newer placeholder last and left the three messages
\* before it alone.
C18_Witness ==
    \E t \in 1..Len(turns), k \in 1..Len(turns) :
        /\ k < t
        /\ turns[k].sessionId = turns[t].sessionId
        /\ turns[k].status # "streaming"
        /\ turns[t].status = "streaming"
        /\ Len(turns[t].chunks) > 0
        /\ objs[turns[k].aiMsgId].isStreaming
        /\ ~objs[turns[t].aiMsgId].isStreaming
        /\ Len(sessions[turns[t].sessionId].messages) = 4

\* ------------------------------------------------------------------ C19
\* C19: in every reachable state each session's messages alternate USER,
\* MODEL starting with USER, so a non-empty session holds an even number of
\* messages and its last message is a MODEL message.
C19_StrictAlternation ==
    \A sid \in DOMAIN sessions :
        LET msgs == sessions[sid].messages
        IN  /\ Len(msgs) % 2 = 0
            /\ \A i \in 1..Len(msgs) :
                  objs[msgs[i]].role = IF i % 2 = 1 THEN USER ELSE MODEL
            /\ Len(msgs) > 0 => objs[Last(msgs)].role = MODEL

\* Two turns are in flight in the same session, which holds their four
\* messages.
C19_Witness ==
    \E t \in 1..Len(turns), k \in 1..Len(turns) :
        /\ k < t
        /\ turns[k].sessionId = turns[t].sessionId
        /\ turns[k].status = "streaming"
        /\ turns[t].status = "streaming"
        /\ Len(sessions[turns[t].sessionId].messages) = 4

\* ------------------------------------------------------------------ C20
\* C20: in every reachable state, if the generating flag is false then no
\* message of any session has isStreaming = true.
C20_IdleMeansNothingStreams ==
    ~isGenerating => \A sid \in DOMAIN sessions : StreamingIn(sid) = {}

\* ------------------------------------------------------------------ C21
\* the update function of a callback step of turn t, as the callback built it
CallbackUpdate(t) ==
    IF IsChunkOf(t)
    THEN [kind |-> "chunk", id |-> turns[t].aiMsgId, text |-> Last(turns'[t].chunks)]
    ELSE IF IsCompleteOf(t) THEN [kind |-> "complete", id |-> "", text |-> ""]
    ELSE [kind |-> "error", id |-> "", text |-> ""]

\* C21: every store update is a pure function of the previous session value:
\* a delta, completion or error update leaves the previously published
\* snapshot as it was (its messages' text and isStreaming read as before the
\* update), and applying the same update function a second time to the same
\* snapshot gives what applying it once gave.
C21_UpdatesArePure ==
    [][\A t \in 1..Len(turns) :
          (IsCallbackOf(t) /\ turns[t].sessionId \in DOMAIN sessions) =>
              LET snapshot == sessions[turns[t].sessionId]
                  u == CallbackUpdate(t)
                  once == Updater(u, snapshot, objs)
                  twice == Updater(u, snapshot, once.objs)
              IN  /\ \A m \in Range(snapshot.messages) :
                        /\ objs'[m].text = objs[m].text
                        /\ objs'[m].isStreaming = objs[m].isStreaming
                  /\ twice = once]_vars

====
